---- MODULE Spec2Model ----
(***************************************************************************)
(* Model of the n8n monitor: the N8nMonitor class                          *)
(* (src/utils/n8n_monitor_sync.py) and the four tool functions that wrap   *)
(* it (src/server.py).                                                     *)
(*                                                                         *)
(* Python values are tagged records [type, val]:                           *)
(*   str       val is the sequence of the string's tokens (characters for  *)
(*             the strings the code parses, words for messages);           *)
(*   int       val is the integer;   bool  val is the boolean;             *)
(*   NoneType  val is the empty set;                                       *)
(*   list      val is the sequence of the elements;                        *)
(*   dict      val is the sequence of <<key, value>> pairs in insertion    *)
(*             order (keys are distinct);                                  *)
(*   float     val is [kind, num, den]: num/den, or kind = "nan";          *)
(*   exception val is the sequence of the tokens of str(e): the block the  *)
(*             operator models raised instead of producing a value.        *)
(***************************************************************************)
EXTENDS Integers, Sequences, FiniteSets, TLC

\* ------------------------------------------------------------------------
\* Python values
\* ------------------------------------------------------------------------
PyStr(s) == [type |-> "str", val |-> s]
PyInt(n) == [type |-> "int", val |-> n]
PyBool(b) == [type |-> "bool", val |-> b]
PyNone == [type |-> "NoneType", val |-> {}]
PyList(l) == [type |-> "list", val |-> l]
PyDict(d) == [type |-> "dict", val |-> d]
PyFloat(n, d) == [type |-> "float", val |-> [kind |-> "num", num |-> n, den |-> d]]
PyNaN == [type |-> "float", val |-> [kind |-> "nan", num |-> 0, den |-> 1]]
Raise(msg) == [type |-> "exception", val |-> msg]

Raised(v) == v.type = "exception"

\* a == b for two values of which one is a str, a bool or None
PyEq(a, b) == a.type = b.type /\ a.val = b.val

\* key in d, for a dict d
Has(d, k) == \E i \in DOMAIN d.val : d.val[i][1] = k

\* d[k], for a dict d that has k
Item(d, k) == d.val[CHOOSE i \in DOMAIN d.val : d.val[i][1] = k][2]

\* d.get(k, dflt), for a dict d
Get(d, k, dflt) == IF Has(d, k) THEN Item(d, k) ELSE dflt

\* d[k] = v, for a dict d: the key keeps its place when it is there already
SetItem(d, k, v) ==
    IF Has(d, k)
    THEN PyDict([i \in DOMAIN d.val |->
                    IF d.val[i][1] = k THEN <<k, v>> ELSE d.val[i]])
    ELSE PyDict(Append(d.val, <<k, v>>))

\* list(d.keys())
Keys(d) == [i \in DOMAIN d.val |-> d.val[i][1]]

\* the error result {"error": msg}
ErrorResult(msg) == PyDict(<< <<"error", PyStr(msg)>> >>)

\* type(v).__name__ as Python prints it
TypeName(v) == v.type

\* bool(v): Python truthiness
Truthy(v) ==
    CASE v.type = "NoneType" -> FALSE
      [] v.type = "bool" -> v.val
      [] v.type = "int" -> v.val # 0
      [] v.type = "float" -> v.val.kind = "nan" \/ v.val.num # 0
      [] OTHER -> Len(v.val) > 0

\* s contains sub as a run of consecutive tokens (the `in` of two strings)
Contains(s, sub) ==
    \E i \in 0..(Len(s) - Len(sub)) :
        \A j \in 1..Len(sub) : s[i + j] = sub[j]

\* `key in v` for an arbitrary value v: TRUE, FALSE, or the TypeError text
\* (a str is searched for the substring, a list for an equal element)
InOp(key, v) ==
    CASE v.type = "dict" -> PyBool(Has(v, key))
      [] v.type = "str" -> PyBool(Contains(v.val, <<key>>))
      [] v.type = "list" ->
            PyBool(\E i \in DOMAIN v.val : PyEq(v.val[i], PyStr(<<key>>)))
      [] OTHER ->
            Raise(<<"argument", "of", "type", TypeName(v), "is", "not", "iterable">>)

\* ------------------------------------------------------------------------
\* Strings and numbers
\* ------------------------------------------------------------------------
Digits == <<"0", "1", "2", "3", "4", "5", "6", "7", "8", "9">>

IsDigit(c) == \E i \in DOMAIN Digits : Digits[i] = c

DigitVal(c) == (CHOOSE i \in DOMAIN Digits : Digits[i] = c) - 1

\* s.rstrip(ch)
RECURSIVE RStrip(_, _)
RStrip(s, ch) ==
    IF Len(s) > 0 /\ s[Len(s)] = ch
    THEN RStrip(SubSeq(s, 1, Len(s) - 1), ch)
    ELSE s

\* the integer a run of digits denotes
RECURSIVE DigitsVal(_)
DigitsVal(s) ==
    IF Len(s) = 0 THEN 0
    ELSE 10 * DigitsVal(SubSeq(s, 1, Len(s) - 1)) + DigitVal(s[Len(s)])

RECURSIVE Pow10(_)
Pow10(n) == IF n = 0 THEN 1 ELSE 10 * Pow10(n - 1)

\* float(s) on a token sequence: digits with at most one point and at least
\* one digit give the number, "nan" in any case gives NaN, anything else is
\* a ValueError.  (Signs, exponents, infinities and blanks are not among the
\* strings drawn.)
ParseFloat(s) ==
    LET points == {i \in DOMAIN s : s[i] = "."}
        digits == {i \in DOMAIN s : IsDigit(s[i])}
        p == IF points = {} THEN Len(s) + 1 ELSE CHOOSE i \in points : TRUE
        whole == SubSeq(s, 1, p - 1)
        frac == SubSeq(s, p + 1, Len(s))
    IN  IF s \in {<<"N", "a", "N">>, <<"n", "a", "n">>}
        THEN PyNaN
        ELSE IF /\ Cardinality(points) <= 1
                /\ digits # {}
                /\ points \cup digits = DOMAIN s
        THEN PyFloat(DigitsVal(whole \o frac), Pow10(Len(frac)))
        ELSE Raise(<<"could", "not", "convert", "string", "to", "float">>)

\* f < n and f > n for a float f and an integer n; every comparison with
\* NaN is false
FloatLt(f, n) == f.val.kind = "num" /\ f.val.num < n * f.val.den
FloatGt(f, n) == f.val.kind = "num" /\ f.val.num > n * f.val.den

\* f >= g for two floats
FloatGe(f, g) ==
    /\ f.val.kind = "num" /\ g.val.kind = "num"
    /\ f.val.num * g.val.den >= g.val.num * f.val.den

\* str(n) for a natural n, one token per digit
RECURSIVE IntToStr(_)
IntToStr(n) ==
    IF n < 10 THEN <<Digits[n + 1]>>
    ELSE IntToStr(n \div 10) \o <<Digits[(n % 10) + 1]>>

\* the text an f-string puts for v
Format(v) ==
    CASE v.type = "str" -> v.val
      [] v.type = "int" -> IntToStr(v.val)
      [] v.type = "NoneType" -> <<"None">>
      [] OTHER -> <<"<", v.type, ">">>

\* ------------------------------------------------------------------------
\* The webhook's answers
\* ------------------------------------------------------------------------
\* requests.post raised (connection refused, timeout, ...): exc is str(e)
TransportFailure(exc) == [kind |-> "transport", exc |-> exc, data |-> PyNone]

\* raise_for_status raised on a non-2xx status: exc is str(e)
HttpError(exc) == [kind |-> "status", exc |-> exc, data |-> PyNone]

\* a 2xx answer whose body response.json() parsed to data
JsonBody(data) == [kind |-> "json", exc |-> <<>>, data |-> data]

\* the response made requests.post or raise_for_status raise a
\* requests.exceptions.RequestException
RequestFailed(resp) == resp.kind \in {"transport", "status"}

\* ------------------------------------------------------------------------
\* N8nMonitor.get_active_workflows
\* ------------------------------------------------------------------------
ConfigError ==
    ErrorResult(<<"N8N_WEBHOOK_URL", "environment", "variable", "not", "set">>)

IsDict(v) == v.type = "dict"

\* the elements a for loop over v visits, or the TypeError
Iterate(v) ==
    CASE v.type = "list" -> v
      [] v.type = "str" -> PyList([i \in DOMAIN v.val |-> PyStr(<<v.val[i]>>)])
      [] v.type = "dict" -> PyList([i \in DOMAIN v.val |-> PyStr(<<v.val[i][1]>>)])
      [] OTHER -> Raise(<<TypeName(v), "object", "is", "not", "iterable">>)

NoAttribute(v, attr) ==
    Raise(<<TypeName(v), "object", "has", "no", "attribute", attr>>)

\* WorkflowSummary with archived taken as the truth of isArchived
WorkflowSummaryTruthy(wf) ==
    PyDict(<< <<"id", Get(wf, "id", PyStr(<<"unknown">>))>>,
              <<"name", Get(wf, "name", PyStr(<<"Unnamed">>))>>,
              <<"created", Get(wf, "createdAt", PyStr(<<>>))>>,
              <<"updated", Get(wf, "updatedAt", PyStr(<<>>))>>,
              <<"archived",
                PyBool(Get(wf, "isArchived", PyStr(<<"false">>))
                          \in {PyStr(<<"true">>), PyBool(TRUE)})>> >>)

\* one entry of "workflows"
WorkflowSummary(wf) ==
    PyDict(<< <<"id", Get(wf, "id", PyStr(<<"unknown">>))>>,
              <<"name", Get(wf, "name", PyStr(<<"Unnamed">>))>>,
              <<"created", Get(wf, "createdAt", PyStr(<<>>))>>,
              <<"updated", Get(wf, "updatedAt", PyStr(<<>>))>>,
              <<"archived",
                PyBool(PyEq(Get(wf, "isArchived", PyStr(<<"false">>)),
                            PyStr(<<"true">>)))>> >>)

\* the success result built from `workflows`, or the exception raised on
\* the way: len() of a value without a length, .get of a non-dict element
ActiveWorkflowsResult(workflows) ==
    LET items == Iterate(workflows)
    IN  IF workflows.type \notin {"list", "str", "dict"}
        THEN Raise(<<"object", "of", "type", TypeName(workflows), "has", "no", "len()">>)
        ELSE IF \E i \in DOMAIN items.val : ~IsDict(items.val[i])
        THEN NoAttribute(items.val[CHOOSE i \in DOMAIN items.val :
                           /\ ~IsDict(items.val[i])
                           /\ \A j \in 1..(i - 1) : IsDict(items.val[j])], "get")
        ELSE PyDict(<<
            <<"total_active", PyInt(Len(items.val))>>,
            <<"workflows",
              PyList([i \in DOMAIN items.val |-> WorkflowSummary(items.val[i])])>>,
            <<"summary", PyDict(<<
                <<"total", PyInt(Len(items.val))>>,
                <<"names",
                  PyList([i \in DOMAIN items.val |->
                            Get(items.val[i], "name", PyStr(<<"Unnamed">>))])>> >>)>> >>)

\* NormalizeWorkflows with the test `if not workflows` alone: the empty list
\* is reported as an invalid format too
NormalizeWorkflowsStrict(data) ==
    CASE data.type = "list" ->
            LET workflows == SelectSeq(data.val, IsDict)
            IN  IF Len(workflows) = 0
                THEN [early |-> TRUE,
                      val |-> ErrorResult(<<"Webhook", "returned", "invalid",
                                            "data", "format">>)]
                ELSE [early |-> FALSE, val |-> PyList(workflows)]
      [] data.type = "dict" ->
            IF Has(data, "data")
            THEN [early |-> FALSE, val |-> Item(data, "data")]
            ELSE [early |-> TRUE,
                  val |-> ErrorResult(<<"Unexpected", "response", "format">>)]
      [] OTHER ->
            [early |-> TRUE,
             val |-> ErrorResult(<<"Unexpected", "response", "type:",
                                   TypeName(data)>>)]

\* the payload's workflows (early = FALSE), or the error result the code
\* returns at once for its shape (early = TRUE)
NormalizeWorkflows(data) ==
    CASE data.type = "list" ->
            LET workflows == SelectSeq(data.val, IsDict)
            IN  IF Len(workflows) = 0 /\ Len(data.val) > 0
                THEN [early |-> TRUE,
                      val |-> ErrorResult(<<"Webhook", "returned", "invalid",
                                            "data", "format">>)]
                ELSE [early |-> FALSE, val |-> PyList(workflows)]
      [] data.type = "dict" ->
            IF Has(data, "data")
            THEN [early |-> FALSE, val |-> Item(data, "data")]
            ELSE [early |-> TRUE,
                  val |-> ErrorResult(<<"Unexpected", "response", "format">>)]
      [] OTHER ->
            [early |-> TRUE,
             val |-> ErrorResult(<<"Unexpected", "response", "type:",
                                   TypeName(data)>>)]

\* what get_active_workflows returns once the webhook has answered
ActiveWorkflowsOf(resp) ==
    IF RequestFailed(resp)
    THEN ErrorResult(<<"Failed", "to", "fetch", "workflows:">> \o resp.exc
                        \o <<"Traceback">>)
    ELSE LET norm == NormalizeWorkflows(resp.data)
             built == ActiveWorkflowsResult(norm.val)
         IN  IF norm.early THEN norm.val
             ELSE IF Raised(built)
             THEN ErrorResult(<<"Unexpected", "error:">> \o built.val
                                 \o <<"Traceback">>)
             ELSE built

\* ------------------------------------------------------------------------
\* N8nMonitor.get_workflow_executions
\* ------------------------------------------------------------------------
\* float(v.rstrip("%")), or the exception: v may be no string
ParseRate(v) ==
    IF v.type # "str" THEN NoAttribute(v, "rstrip")
    ELSE ParseFloat(RStrip(v.val, "%"))

\* HealthStatus with the first threshold inclusive: <= 10 is Healthy
HealthStatusInclusive(failure_rate) ==
    IF FloatLt(failure_rate, 10) \/ failure_rate.val = PyFloat(10, 1).val
    THEN PyStr(<<"Healthy">>)
    ELSE IF FloatLt(failure_rate, 25) THEN PyStr(<<"Warning">>)
    ELSE PyStr(<<"Critical">>)

\* the health bucket of a parsed failure rate (the emoji before the word is
\* left out)
HealthStatus(failure_rate) ==
    IF FloatLt(failure_rate, 10) THEN PyStr(<<"Healthy">>)
    ELSE IF FloatLt(failure_rate, 25) THEN PyStr(<<"Warning">>)
    ELSE PyStr(<<"Critical">>)

\* the insights for data["summary"], or the exception
Insights(summary) ==
    LET failure_rate == ParseRate(Get(summary, "failureRate", PyStr(<<"0">>)))
    IN  IF summary.type # "dict" THEN NoAttribute(summary, "get")
        ELSE IF Raised(failure_rate) THEN failure_rate
        ELSE PyDict(<<
            <<"health_status", HealthStatus(failure_rate)>>,
            <<"message",
              PyStr(Format(Get(summary, "totalExecutions", PyInt(0)))
                    \o <<"executions", "with">>
                    \o Format(Get(summary, "failureRate", PyStr(<<"0", "%">>)))
                    \o <<"failure", "rate">>)>> >>)

\* Unwrap for lists of exactly one element only
UnwrapSingle(data) ==
    IF data.type = "list" /\ Len(data.val) = 1 THEN data.val[1] ELSE data

\* a non-empty list is unwrapped to its first element
Unwrap(data) ==
    IF data.type = "list" /\ Len(data.val) > 0 THEN data.val[1] ELSE data

\* what get_workflow_executions returns once the webhook has answered
ExecutionsOf(resp, includes_kpis) ==
    IF RequestFailed(resp)
    THEN ErrorResult(<<"Failed", "to", "fetch", "executions:">> \o resp.exc)
    ELSE LET data == Unwrap(resp.data)
         IN  IF includes_kpis /\ data.type = "dict" /\ Has(data, "summary")
             THEN LET insights == Insights(Item(data, "summary"))
                  IN  IF Raised(insights)
                      THEN ErrorResult(<<"Unexpected", "error:">> \o insights.val)
                      ELSE SetItem(data, "insights", insights)
             ELSE data

\* ------------------------------------------------------------------------
\* N8nMonitor.get_workflow_health_report
\* ------------------------------------------------------------------------
\* the least index of seq whose element is an exception (0: there is none)
FirstRaised(seq) ==
    IF \E i \in DOMAIN seq : Raised(seq[i])
    THEN CHOOSE i \in DOMAIN seq :
            Raised(seq[i]) /\ \A j \in 1..(i - 1) : ~Raised(seq[j])
    ELSE 0

\* workflow_names.get(wf_id, dflt) where workflow_names is
\* {wf["id"]: wf["name"] for wf in workflows}: the last entry with an id wins
WorkflowName(workflows, wf_id, dflt) ==
    LET hits == {i \in DOMAIN workflows :
                    PyEq(Item(workflows[i], "id"), PyStr(<<wf_id>>))}
    IN  IF hits = {} THEN dflt
        ELSE Item(workflows[CHOOSE i \in hits : \A j \in hits : j <= i], "name")

\* float(metrics.get("failureRate", "0%").rstrip("%")), or the exception
MetricsRate(metrics) ==
    IF metrics.type # "dict" THEN NoAttribute(metrics, "get")
    ELSE ParseRate(Get(metrics, "failureRate", PyStr(<<"0", "%">>)))

\* IsProblematicRate with >= for >
IsProblematicRateInclusive(failure_rate) ==
    FloatGe(failure_rate, PyFloat(10, 1))

\* failure_rate > 10: the workflow goes to problematic_workflows
IsProblematicRate(failure_rate) == FloatGt(failure_rate, 10)

\* the sort key of an entry of problematic_workflows
SortKey(wf_info) == MetricsRate(Item(wf_info, "metrics"))

\* the list left as it was built, in the order of allWorkflowMetrics
Unsorted(s) == s

\* list.sort(key = SortKey, reverse = True): descending, and entries with
\* equal keys keep their order
RECURSIVE SortByRateDesc(_)
SortByRateDesc(s) ==
    IF Len(s) <= 1 THEN s
    ELSE LET sorted == SortByRateDesc(SubSeq(s, 1, Len(s) - 1))
             x == s[Len(s)]
             before == {i \in DOMAIN sorted : FloatGe(SortKey(sorted[i]), SortKey(x))}
             k == Cardinality(before)
         IN  SubSeq(sorted, 1, k) \o <<x>> \o SubSeq(sorted, k + 1, Len(sorted))

\* exec_data["workflowPerformance"]["allWorkflowMetrics"] when the report
\* categorizes it, an empty dict when the condition of the if is false, or the
\* exception the condition or the subscript raises
AllWorkflowMetrics(exec_data) ==
    IF ~Has(exec_data, "workflowPerformance") THEN PyDict(<<>>)
    ELSE LET wp == Item(exec_data, "workflowPerformance")
             there == InOp("allWorkflowMetrics", wp)
         IN  IF Raised(there) THEN there
             ELSE IF ~there.val THEN PyDict(<<>>)
             ELSE IF wp.type # "dict"
             THEN Raise(<<TypeName(wp), "indices", "must", "be", "integers">>)
             ELSE IF Item(wp, "allWorkflowMetrics").type # "dict"
             THEN NoAttribute(Item(wp, "allWorkflowMetrics"), "items")
             ELSE Item(wp, "allWorkflowMetrics")

\* the report built from the two upstream results, or the exception
BuildReport(exec_data, workflows_data, now) ==
    LET workflows == Get(workflows_data, "workflows", PyList(<<>>)).val
        unhashable == {i \in DOMAIN workflows :
                          Item(workflows[i], "id").type \in {"list", "dict"}}
        awm == AllWorkflowMetrics(exec_data)
        rates == [i \in DOMAIN awm.val |-> MetricsRate(awm.val[i][2])]
        bad == FirstRaised(rates)
        wf_info == [i \in DOMAIN awm.val |->
            PyDict(<< <<"id", PyStr(<<awm.val[i][1]>>)>>,
                      <<"name",
                        WorkflowName(workflows, awm.val[i][1],
                            PyStr(<<"Unknown", "(", awm.val[i][1], ")">>))>>,
                      <<"metrics", awm.val[i][2]>> >>)]
        IsProblematic(w) == IsProblematicRate(SortKey(w))
        IsHealthy(w) == ~IsProblematicRate(SortKey(w))
    IN  IF unhashable # {}
        THEN Raise(<<"unhashable", "type:",
                     TypeName(Item(workflows[CHOOSE i \in unhashable :
                         \A j \in unhashable : i <= j], "id"))>>)
        ELSE IF exec_data.type # "dict" THEN NoAttribute(exec_data, "get")
        ELSE IF Raised(awm) THEN awm
        ELSE IF bad # 0 THEN rates[bad]
        ELSE PyDict(<<
            <<"generated_at", PyStr(<<now>>)>>,
            <<"overall_health", Get(exec_data, "insights", PyDict(<<>>))>>,
            <<"summary", Get(exec_data, "summary", PyDict(<<>>))>>,
            <<"execution_modes", Get(exec_data, "executionModes", PyDict(<<>>))>>,
            <<"timing_metrics", Get(exec_data, "timing", PyDict(<<>>))>>,
            <<"problematic_workflows",
              PyList(SortByRateDesc(SelectSeq(wf_info, IsProblematic)))>>,
            <<"healthy_workflows", PyList(SelectSeq(wf_info, IsHealthy))>>,
            <<"alerts", Get(exec_data, "alerts", PyDict(<<>>))>> >>)

\* the except clause of get_workflow_health_report
ReportFailure(exc) ==
    ErrorResult(<<"Failed", "to", "generate", "health", "report:">> \o exc.val)

\* what get_workflow_health_report returns once both upstream results are
\* there and the second has no "error"
HealthReportOf(exec_data, workflows_data, now) ==
    LET report == BuildReport(exec_data, workflows_data, now)
    IN  IF Raised(report) THEN ReportFailure(report) ELSE report

\* ------------------------------------------------------------------------
\* N8nMonitor.get_error_executions
\* ------------------------------------------------------------------------
\* v[0], or the exception
Subscript0(v) ==
    CASE v.type = "list" ->
            IF Len(v.val) > 0 THEN v.val[1]
            ELSE Raise(<<"list", "index", "out", "of", "range">>)
      [] v.type = "str" ->
            IF Len(v.val) > 0 THEN PyStr(<<v.val[1]>>)
            ELSE Raise(<<"string", "index", "out", "of", "range">>)
      [] v.type = "dict" -> Raise(<<"0">>)
      [] OTHER -> Raise(<<TypeName(v), "object", "is", "not", "subscriptable">>)

\* len(v) > 0, or the exception
LenPositive(v) ==
    IF v.type \in {"list", "str", "dict"} THEN PyBool(Len(v.val) > 0)
    ELSE Raise(<<"object", "of", "type", TypeName(v), "has", "no", "len()">>)

\* exec["data"] is a dict
HasData(exec) == Get(exec, "data", PyNone).type = "dict"

\* exec["data"].get("resultData", {})
ResultData(exec) == Get(Item(exec, "data"), "resultData", PyDict(<<>>))

\* the error branch is taken
HasError(exec) ==
    /\ HasData(exec)
    /\ ResultData(exec).type = "dict"
    /\ Has(ResultData(exec), "error")

\* error_info after the error branch, or the exception
ErrorInfo(exec) ==
    IF ~HasError(exec) THEN PyDict(<<>>)
    ELSE LET err == Item(ResultData(exec), "error")
         IN  IF err.type # "dict" THEN NoAttribute(err, "get")
             ELSE PyDict(<<
                <<"message", Get(err, "message", PyStr(<<"Unknown", "error">>))>>,
                <<"description", Get(err, "description", PyNone)>>,
                <<"http_code", Get(err, "httpCode", PyNone)>>,
                <<"level", Get(err, "level", PyStr(<<"error">>))>>,
                <<"timestamp", Get(err, "timestamp", PyNone)>> >>)

\* failed_node_details after the error branch (err is a dict there)
FailedNodeDetails(exec) ==
    IF ~HasError(exec) THEN PyDict(<<>>)
    ELSE LET node == Get(Item(ResultData(exec), "error"), "node", PyNone)
         IN  IF node.type # "dict" THEN PyDict(<<>>)
             ELSE PyDict(<< <<"name", Get(node, "name", PyNone)>>,
                            <<"type", Get(node, "type", PyNone)>>,
                            <<"id", Get(node, "id", PyNone)>>,
                            <<"position", Get(node, "position", PyNone)>> >>)

\* The local variable last_node after this execution's pass of the loop body:
\* [bound, val], bound = FALSE while the name is not in locals().  It is
\* assigned only under `if isinstance(exec.get("data"), dict)` and is never
\* reset, so a pass that skips the assignment leaves the previous pass's value.
LastNode(exec, last_node) ==
    IF HasData(exec) /\ ResultData(exec).type = "dict"
    THEN [bound |-> TRUE,
          val |-> Get(ResultData(exec), "lastNodeExecuted", PyNone)]
    ELSE last_node

\* the variable before the first pass
Unbound == [bound |-> FALSE, val |-> PyNone]

\* trigger_info, or the exception (resultData is a dict when this is reached)
TriggerInfo(exec) ==
    LET run_data == Get(ResultData(exec), "runData", PyDict(<<>>))
        webhook_data == Item(run_data, "Webhook")
        first_webhook == webhook_data.val[1]
        main == Get(Item(first_webhook, "data"), "main",
                    PyList(<<PyList(<<>>)>>))
        main_data == Subscript0(main)
        nonempty == LenPositive(main_data)
        first == Subscript0(main_data)
        trigger_json == Get(first, "json", PyDict(<<>>))
        body == Get(trigger_json, "body", PyNone)
    IN  IF ~HasData(exec) THEN PyDict(<<>>)
        ELSE IF ~(run_data.type = "dict" /\ Has(run_data, "Webhook")) THEN PyDict(<<>>)
        ELSE IF ~(webhook_data.type = "list" /\ Len(webhook_data.val) > 0)
        THEN PyDict(<<>>)
        ELSE IF first_webhook.type # "dict" THEN NoAttribute(first_webhook, "get")
        ELSE IF Get(first_webhook, "data", PyNone).type # "dict" THEN PyDict(<<>>)
        ELSE IF Raised(main_data) THEN main_data
        ELSE IF ~Truthy(main_data) THEN PyDict(<<>>)
        ELSE IF Raised(nonempty) THEN nonempty
        ELSE IF ~nonempty.val THEN PyDict(<<>>)
        ELSE IF Raised(first) THEN first
        ELSE IF first.type # "dict" THEN NoAttribute(first, "get")
        ELSE IF trigger_json.type # "dict" THEN NoAttribute(trigger_json, "get")
        ELSE PyDict(<<
            <<"action",
              IF body.type = "dict" THEN Get(body, "action", PyNone) ELSE PyNone>>,
            <<"parameters", body>>,
            <<"execution_mode",
              Get(trigger_json, "executionMode", PyStr(<<"production">>))>> >>)

\* s.replace("Z", "+00:00")
ReplaceZ(s) == [i \in DOMAIN s |-> IF s[i] = "Z" THEN "+00:00" ELSE s[i]]

\* datetime.fromisoformat(s) for the timestamps of one minute of one day,
\* written <<DatePart, d1, d2>> with an optional "+00:00" after them:
\* [aware, seconds], or the ValueError
DatePart == "2025-01-01T10:00:"

FromIsoFormat(s) ==
    IF /\ Len(s) \in {3, 4}
       /\ s[1] = DatePart
       /\ IsDigit(s[2]) /\ IsDigit(s[3]) /\ DigitVal(s[2]) < 6
       /\ Len(s) = 4 => s[4] = "+00:00"
    THEN [type |-> "datetime",
          val |-> [aware |-> Len(s) = 4, seconds |-> DigitsVal(<<s[2], s[3]>>)]]
    ELSE Raise(<<"Invalid", "isoformat", "string">>)

\* Duration without the try/except around the parsing and the subtraction:
\* the exception leaves the loop body
DurationUncaught(exec) ==
    LET started == Get(exec, "startedAt", PyNone)
        stopped == Get(exec, "stoppedAt", PyNone)
        start == FromIsoFormat(ReplaceZ(started.val))
        stop == FromIsoFormat(ReplaceZ(stopped.val))
    IN  IF ~(Truthy(started) /\ Truthy(stopped)) THEN PyNone
        ELSE IF started.type # "str" THEN NoAttribute(started, "replace")
        ELSE IF Raised(start) THEN start
        ELSE IF stopped.type # "str" THEN NoAttribute(stopped, "replace")
        ELSE IF Raised(stop) THEN stop
        ELSE IF start.val.aware # stop.val.aware
        THEN Raise(<<"can't", "subtract", "offset-naive", "and", "offset-aware",
                     "datetimes">>)
        ELSE PyFloat(stop.val.seconds - start.val.seconds, 1)

\* duration: None unless both timestamps are truthy, parse, and subtract
Duration(exec) ==
    LET started == Get(exec, "startedAt", PyNone)
        stopped == Get(exec, "stoppedAt", PyNone)
        start == FromIsoFormat(ReplaceZ(started.val))
        stop == FromIsoFormat(ReplaceZ(stopped.val))
    IN  IF ~(Truthy(started) /\ Truthy(stopped)) THEN PyNone
        ELSE IF started.type # "str" THEN PyNone
        ELSE IF Raised(start) THEN PyNone
        ELSE IF stopped.type # "str" THEN PyNone
        ELSE IF Raised(stop) THEN PyNone
        ELSE IF start.val.aware # stop.val.aware THEN PyNone
        ELSE PyFloat(stop.val.seconds - start.val.seconds, 1)

\* workflow_name of one execution
WorkflowNameOf(exec) ==
    IF Get(exec, "workflowData", PyNone).type = "dict"
    THEN Get(Item(exec, "workflowData"), "name", PyNone)
    ELSE PyNone

\* x or y
Or(x, y) == IF Truthy(x) THEN x ELSE y

\* the entry appended for exec, last_node being the variable's state before
\* this pass; or the exception the pass raises
ErrorDetail(exec, last_node) ==
    LET error_info == ErrorInfo(exec)
        after == LastNode(exec, last_node)
        trigger_info == TriggerInfo(exec)
        duration == Duration(exec)
    IN  IF Raised(error_info) THEN error_info
        ELSE IF HasData(exec) /\ ResultData(exec).type # "dict"
        THEN NoAttribute(ResultData(exec), "get")
        ELSE IF Raised(trigger_info) THEN trigger_info
        ELSE IF Raised(duration) THEN duration
        ELSE PyDict(<<
            <<"id", Get(exec, "id", PyNone)>>,
            <<"workflow_name", WorkflowNameOf(exec)>>,
            <<"status", Get(exec, "status", PyStr(<<"error">>))>>,
            <<"mode", Get(exec, "mode", PyNone)>>,
            <<"started_at", Get(exec, "startedAt", PyNone)>>,
            <<"stopped_at", Get(exec, "stoppedAt", PyNone)>>,
            <<"duration_seconds", duration>>,
            <<"finished", Get(exec, "finished", PyBool(FALSE))>>,
            <<"retry_of", Get(exec, "retryOf", PyNone)>>,
            <<"retry_success_id", Get(exec, "retrySuccessId", PyNone)>>,
            <<"error",
              Or(error_info,
                 PyDict(<< <<"message",
                             PyStr(<<"Error", "details", "not", "available">>)>> >>))>>,
            <<"failed_node",
              Or(FailedNodeDetails(exec),
                 PyDict(<< <<"name",
                             IF after.bound THEN after.val
                             ELSE PyStr(<<"Unknown">>)>> >>))>>,
            <<"trigger", trigger_info>> >>)

\* the loop over executions from position i on: the list of entries, or the
\* exception a pass raises; elements that are no dicts are skipped
RECURSIVE ProcessExecutions(_, _, _, _)
ProcessExecutions(executions, i, last_node, error_details) ==
    IF i > Len(executions) THEN PyList(error_details)
    ELSE IF executions[i].type # "dict"
    THEN ProcessExecutions(executions, i + 1, last_node, error_details)
    ELSE LET detail == ErrorDetail(executions[i], last_node)
         IN  IF Raised(detail) THEN detail
             ELSE ProcessExecutions(executions, i + 1,
                                    LastNode(executions[i], last_node),
                                    Append(error_details, detail))

\* detail["error"].get("message", "Unknown")
MessageOf(detail) == Get(Item(detail, "error"), "message", PyStr(<<"Unknown">>))

\* detail["failed_node"].get("name", "Unknown")
NodeNameOf(detail) == Get(Item(detail, "failed_node"), "name", PyStr(<<"Unknown">>))

\* the elements of a set of numbers in increasing order
Ascending(S) ==
    [n \in 1..Cardinality(S) |->
        CHOOSE i \in S : Cardinality({j \in S : j < i}) = n - 1]

\* the indices of keys, in order, at which a key occurs for the first time
FirstOccurrences(keys) ==
    Ascending({i \in DOMAIN keys : \A j \in 1..(i - 1) : keys[j] # keys[i]})

\* ErrorPatterns with the entry of a message made anew at each occurrence:
\* count 1 and the id of the last execution with that message
ErrorPatternsOverwrite(error_details) ==
    LET msgs == [i \in DOMAIN error_details |-> MessageOf(error_details[i])]
        firsts == FirstOccurrences(msgs)
        Last(m) == CHOOSE i \in DOMAIN msgs :
                      /\ msgs[i] = m
                      /\ \A j \in DOMAIN msgs : msgs[j] = m => j <= i
    IN  PyDict([n \in DOMAIN firsts |->
            <<msgs[firsts[n]],
              PyDict(<<
                <<"count", PyInt(1)>>,
                <<"executions",
                  PyList(<<Item(error_details[Last(msgs[firsts[n]])], "id")>>)>> >>)>>])

\* error_patterns: keyed by message in order of first occurrence
ErrorPatterns(error_details) ==
    LET msgs == [i \in DOMAIN error_details |-> MessageOf(error_details[i])]
        firsts == FirstOccurrences(msgs)
        Same(m) == Ascending({i \in DOMAIN msgs : msgs[i] = m})
    IN  PyDict([n \in DOMAIN firsts |->
            <<msgs[firsts[n]],
              PyDict(<<
                <<"count", PyInt(Len(Same(msgs[firsts[n]])))>>,
                <<"executions",
                  PyList([k \in DOMAIN Same(msgs[firsts[n]]) |->
                      Item(error_details[Same(msgs[firsts[n]])[k]], "id")])>> >>)>>])

\* node_failures: keyed by truthy node name in order of first occurrence
NodeFailures(error_details) ==
    LET named == Ascending({i \in DOMAIN error_details :
                               Truthy(NodeNameOf(error_details[i]))})
        names == [i \in DOMAIN named |-> NodeNameOf(error_details[named[i]])]
        firsts == FirstOccurrences(names)
    IN  PyDict([n \in DOMAIN firsts |->
            <<names[firsts[n]],
              PyInt(Cardinality({i \in DOMAIN names : names[i] = names[firsts[n]]}))>>])

\* a key of error_patterns or node_failures that cannot be hashed
Unhashable(error_details) ==
    \E i \in DOMAIN error_details :
        \/ MessageOf(error_details[i]).type \in {"list", "dict"}
        \/ NodeNameOf(error_details[i]).type \in {"list", "dict"}

\* the success result for the entries
ErrorExecutionsResult(workflow_id, error_details) ==
    LET n == Len(error_details)
    IN  PyDict(<<
        <<"workflow_id", workflow_id>>,
        <<"workflow_name",
          IF n > 0 THEN Item(error_details[1], "workflow_name")
          ELSE PyStr(<<"Unknown">>)>>,
        <<"error_count", PyInt(n)>>,
        <<"errors", PyList(error_details)>>,
        <<"summary", PyDict(<<
            <<"total_errors", PyInt(n)>>,
            <<"error_patterns", ErrorPatterns(error_details)>>,
            <<"failed_nodes", NodeFailures(error_details)>>,
            <<"time_range", PyDict(<<
                <<"oldest",
                  IF n > 0 THEN Item(error_details[n], "started_at") ELSE PyNone>>,
                <<"newest",
                  IF n > 0 THEN Item(error_details[1], "started_at") ELSE PyNone>>
              >>)>> >>)>> >>)

\* what get_error_executions returns once the webhook has answered
ErrorExecutionsOf(resp, workflow_id) ==
    IF RequestFailed(resp) THEN ErrorResult(resp.exc)
    ELSE LET data == resp.data
             executions == IF data.type = "list" THEN data ELSE Item(data, "data")
             items == Iterate(executions)
             error_details == ProcessExecutions(items.val, 1, Unbound, <<>>)
         IN  IF ~(data.type = "list" \/ (data.type = "dict" /\ Has(data, "data")))
             THEN ErrorResult(<<"Unexpected", "response", "format">>)
             ELSE IF Raised(items) THEN ErrorResult(items.val)
             ELSE IF Raised(error_details) THEN ErrorResult(error_details.val)
             ELSE IF Unhashable(error_details.val)
             THEN ErrorResult(<<"unhashable", "type">>)
             ELSE ErrorExecutionsResult(workflow_id, error_details.val)

\* ------------------------------------------------------------------------
\* The tool functions of server.py: each returns the monitor's result, or
\* {"error": str(e)} when its own logging code raises
\* ------------------------------------------------------------------------
\* ToolReturn without the tool's except clause: the exception goes to the caller
ToolReturnUncaught(result, key) ==
    LET failed == InOp("error", result)
    IN  IF Raised(failed) THEN failed ELSE result

\* the body of a tool's try block after it has the monitor's result: the
\* test `"error" in result`, and in the else branch the test `key in result`
\* followed by result[key].get(...)
ToolReturn(result, key) ==
    LET failed == InOp("error", result)
        there == InOp(key, result)
    IN  IF Raised(failed) THEN ErrorResult(failed.val)
        ELSE IF failed.val THEN result
        ELSE IF ~there.val THEN result
        ELSE IF result.type # "dict"
        THEN ErrorResult(<<TypeName(result), "indices", "must", "be", "integers">>)
        ELSE IF Item(result, key).type # "dict"
        THEN ErrorResult(NoAttribute(Item(result, key), "get").val)
        ELSE result

\* server.get_active_workflows: result.get("total_active", 0) in the else branch
ToolGetActiveWorkflows(result) ==
    LET failed == InOp("error", result)
    IN  IF Raised(failed) THEN ErrorResult(failed.val)
        ELSE IF ~failed.val /\ result.type # "dict"
        THEN ErrorResult(NoAttribute(result, "get").val)
        ELSE result

\* server.get_workflow_executions
ToolGetWorkflowExecutions(result) == ToolReturn(result, "summary")

\* server.get_workflow_health_report
ToolGetWorkflowHealthReport(result) == ToolReturn(result, "overall_health")

\* server.get_error_executions: result.get("error_count", 0) in the else
\* branch; the lookups after it read what ErrorExecutionsResult built
ToolGetErrorExecutions(result) ==
    LET failed == InOp("error", result)
    IN  IF Raised(failed) THEN ErrorResult(failed.val)
        ELSE IF ~failed.val /\ result.type # "dict"
        THEN ErrorResult(NoAttribute(result, "get").val)
        ELSE result

\* ------------------------------------------------------------------------
\* Inputs: the environment, the callers' arguments, the webhook's answers
\* ------------------------------------------------------------------------
MaxWorkflows == 2
MaxMetrics == 2
MaxExecutions == 2

\* self.timeout
Timeout == 30
\* the default of limit in the tools and in get_workflow_executions
DefaultLimit == 50
\* the default of limit in get_error_executions
ErrorLimit == 5

SeqsUpTo(S, n) == UNION {[1..k -> S] : k \in 0..n}

\* the values of N8N_WEBHOOK_URL: unset (the default "") or a URL
Urls == {<<>>, <<"http://n8n.local/webhook">>}

Limits == {1, DefaultLimit}

\* str(e) of the exceptions requests raises
ConnectionRefused == <<"Connection", "refused">>
ReadTimedOut == <<"Read", "timed", "out">>
ServerError == <<"500", "Server", "Error">>
\* requests.post("") raises MissingSchema before anything is sent
MissingSchema == <<"Invalid", "URL", "''", "No", "scheme", "supplied">>

\* datetime.now().isoformat()
Clock == {"2025-01-01T12:00:00"}

Rec(pairs) == PyDict(pairs)
Text(t) == PyStr(<<t>>)

\* payloads of no expected shape, sent in answer to any action
OddPayloads ==
    { PyNone, PyInt(7), Text("ok"), Text("error"), PyList(<<>>), PyDict(<<>>),
      PyList(<<Text("error")>>),
      Rec(<< <<"error", Text("upstream")>> >>),
      Rec(<< <<"data", PyNone>> >>),
      Rec(<< <<"data", Text("ab")>> >>),
      Rec(<< <<"data", PyStr(<<>>)>> >>) }

\* elements of a workflow list
WorkflowItems ==
    { Rec(<< <<"id", Text("w1")>>, <<"name", Text("Alpha")>>,
             <<"createdAt", Text("t1")>>, <<"updatedAt", Text("t2")>>,
             <<"isArchived", Text("true")>> >>),
      Rec(<< <<"id", Text("w2")>>, <<"name", Text("Beta")>>,
             <<"isArchived", PyBool(TRUE)>> >>),
      Rec(<< <<"id", Text("w1")>>, <<"name", Text("Gamma")>>,
             <<"isArchived", Text("false")>> >>),
      PyDict(<<>>),
      Text("stray") }

WorkflowPayloads ==
    LET lists == SeqsUpTo(WorkflowItems, MaxWorkflows)
    IN  {PyList(l) : l \in lists}
        \cup {Rec(<< <<"data", PyList(l)>> >>) : l \in lists}
        \cup OddPayloads

\* failure rates as n8n formats them, character by character
Rate(chars) == PyStr(chars \o <<"%">>)

SummaryRates ==
    { Rate(<<"0">>), Rate(<<"9", ".", "9">>), Rate(<<"1", "0">>),
      Rate(<<"2", "4", ".", "9">>), Rate(<<"2", "5">>), Rate(<<"N", "a", "N">>),
      PyStr(<<"n", "/", "a">>), PyInt(12) }

Summaries ==
    {Rec(<< <<"totalExecutions", PyInt(40)>>, <<"failureRate", r>> >>) :
        r \in SummaryRates}
    \cup {Rec(<< <<"totalExecutions", PyInt(40)>> >>), PyDict(<<>>), PyNone}

MetricIds == {"w1", "w2", "w9"}

MetricRates ==
    { Rate(<<"1", "0">>), Rate(<<"1", "0", ".", "1">>), Rate(<<"2", "5">>),
      Rate(<<"N", "a", "N">>) }

Metrics ==
    {Rec(<< <<"failureRate", r>> >>) : r \in MetricRates} \cup {PyDict(<<>>)}

\* allWorkflowMetrics: up to MaxMetrics ids, each once, in any order
MetricsMaps ==
    {PyDict(m) : m \in {m \in SeqsUpTo(MetricIds \X Metrics, MaxMetrics) :
        \A i, j \in DOMAIN m : i # j => m[i][1] # m[j][1]}}

Performances ==
    {Rec(<< <<"allWorkflowMetrics", m>> >>) : m \in MetricsMaps}
    \cup { PyNone, PyDict(<<>>), Text("allWorkflowMetrics"),
           Rec(<< <<"allWorkflowMetrics", PyList(<<>>)>> >>),
           Rec(<< <<"allWorkflowMetrics",
                    Rec(<< <<"w1", Text("bad")>> >>)>> >>),
           Rec(<< <<"allWorkflowMetrics",
                    Rec(<< <<"w1", Rec(<< <<"failureRate",
                                            PyStr(<<"n", "/", "a">>)>> >>)>> >>)>> >>) }

ExecutionRecords ==
    {Rec(<< <<"summary", sm>>, <<"timing", Text("fast")>> >>) : sm \in Summaries}
    \cup {Rec(<< <<"summary", Rec(<< <<"totalExecutions", PyInt(40)>>,
                                      <<"failureRate", Rate(<<"2", "5">>)>> >>)>>,
                 <<"workflowPerformance", p>> >>) : p \in Performances}
    \cup { Rec(<< <<"insights", Text("stale")>> >>),
           Rec(<< <<"insights", Text("stale")>>,
                  <<"summary", Rec(<< <<"failureRate", Rate(<<"1", "0">>)>> >>)>> >>) }

ExecutionPayloads ==
    ExecutionRecords
    \cup {PyList(<<r>>) : r \in {r \in ExecutionRecords : ~Has(r, "workflowPerformance")}}
    \cup { PyList(<< Rec(<< <<"summary",
                               Rec(<< <<"failureRate", Rate(<<"1", "0">>)>> >>)>>,
                             <<"timing", Text("fast")>> >>),
                      Rec(<< <<"timing", Text("slow")>> >>) >>) }
    \cup OddPayloads

\* timestamps within one minute, character by character after the date part
Stamp(d1, d2, zone) == PyStr(<<DatePart, d1, d2>> \o zone)

\* runData with a Webhook entry whose first run carries `main`
WebhookRun(first) == Rec(<< <<"Webhook", PyList(<<first>>)>> >>)
MainOf(main) == Rec(<< <<"data", Rec(<< <<"main", main>> >>)>> >>)

TriggerJson ==
    Rec(<< <<"json", Rec(<< <<"body", Rec(<< <<"action", Text("sync")>> >>)>>,
                            <<"executionMode", Text("test")>> >>)>> >>)

Execution(id, fields, result_data) ==
    PyDict(<< <<"id", Text(id)>> >> \o fields
           \o << <<"data", Rec(<< <<"resultData", Rec(result_data)>> >>)>> >>)

\* elements of an execution list
ExecutionItems ==
    { Execution("e1",
        << <<"startedAt", Stamp("0", "5", <<"Z">>)>>,
           <<"stoppedAt", Stamp("0", "9", <<"Z">>)>>,
           <<"workflowData", Rec(<< <<"name", Text("Flow")>> >>)>> >>,
        << <<"error", Rec(<< <<"message", Text("Timeout")>>,
                             <<"node", Rec(<< <<"name", Text("HTTP")>>,
                                              <<"type", Text("http")>> >>)>> >>)>>,
           <<"lastNodeExecuted", Text("HTTP")>>,
           <<"runData", WebhookRun(MainOf(PyList(<<PyList(<<TriggerJson>>)>>)))>> >>),
      Execution("e2",
        << <<"startedAt", Stamp("0", "5", <<>>)>>,
           <<"stoppedAt", Stamp("0", "9", <<"Z">>)>> >>,
        << <<"error", Rec(<< <<"message", Text("Timeout")>> >>)>>,
           <<"lastNodeExecuted", Text("Code")>> >>),
      Execution("e3",
        << <<"startedAt", Stamp("0", "7", <<>>)>>,
           <<"stoppedAt", Stamp("1", "2", <<>>)>> >>,
        << <<"error", Rec(<< <<"message", Text("Boom")>> >>)>> >>),
      Execution("e4",
        << <<"startedAt", Text("yesterday")>>,
           <<"stoppedAt", Stamp("0", "9", <<"Z">>)>> >>,
        << <<"lastNodeExecuted", Text("Set")>>,
           <<"runData", Rec(<< <<"Manual", PyList(<<>>)>> >>)>> >>),
      Rec(<< <<"id", Text("e5")>>, <<"startedAt", PyInt(17)>>,
             <<"stoppedAt", Stamp("0", "9", <<"Z">>)>> >>),
      Execution("e6", <<>>, << <<"runData", WebhookRun(MainOf(PyList(<<>>)))>> >>),
      Execution("e7", <<>>, << <<"runData", WebhookRun(Text("run"))>> >>),
      Execution("e8", <<>>,
        << <<"runData", WebhookRun(MainOf(PyList(<<PyList(<<>>)>>)))>> >>),
      Execution("e9", <<>>, << <<"runData", WebhookRun(PyDict(<<>>))>> >>),
      Execution("e10", <<>>,
        << <<"runData", Rec(<< <<"Webhook", Text("none")>> >>)>> >>),
      Execution("e11", <<>>,
        << <<"runData", WebhookRun(Rec(<< <<"data", PyDict(<<>>)>> >>))>> >>),
      Text("stray") }

ErrorPayloads ==
    LET lists == SeqsUpTo(ExecutionItems, MaxExecutions)
    IN  {PyList(l) : l \in lists}
        \cup {Rec(<< <<"data", PyList(l)>> >>) : l \in lists}
        \cup OddPayloads

\* workflow_id as the caller passes it: a name, the empty string, or None
WorkflowIds == {Text("wf1"), PyStr(<<>>), PyNone}

\* ------------------------------------------------------------------------
\* The server: one tool call at a time, blocking on each POST
\* ------------------------------------------------------------------------
VARIABLES
    webhook_url,    \* N8nMonitor.webhook_url, read from the environment
    pc,             \* "idle", "post" (a POST awaits its answer), "done"
    call,           \* the tool call in progress: [op, limit, include_kpis, workflow_id]
    posts,          \* the calls of requests.post made for it, in order
    received,       \* the webhook's answers to them, in order
    exec_data,      \* the local exec_data of get_workflow_health_report
    result          \* what the tool returned

vars == <<webhook_url, pc, call, posts, received, exec_data, result>>

NoCall ==
    [op |-> "none", limit |-> 0, include_kpis |-> FALSE, workflow_id |-> PyNone]

\* the keyword arguments of one requests.post
Request(json) == [url |-> webhook_url, json |-> json, timeout |-> Timeout]

WorkflowsRequest ==
    Request(Rec(<< <<"action", Text("get_active_workflows")>> >>))

ExecutionsRequest(limit) ==
    Request(Rec(<< <<"action", Text("get_workflow_executions")>>,
                   <<"limit", PyInt(limit)>> >>))

DetailsRequest(limit, workflow_id) ==
    Request(Rec(<< <<"action", Text("get_execution_details")>>,
                   <<"limit", PyInt(limit)>>,
                   <<"workflow_id", workflow_id>> >>))

ActionOf(request) == Item(request.json, "action").val[1]

Init ==
    /\ webhook_url \in Urls
    /\ pc = "idle"
    /\ call = NoCall
    /\ posts = <<>>
    /\ received = <<>>
    /\ exec_data = PyNone
    /\ result = PyNone

\* the tool returns r
Finish(r) == result' = r /\ pc' = "done"

\* the call blocks in requests.post(request)
Post(request) ==
    /\ posts' = Append(posts, request)
    /\ pc' = "post"
    /\ UNCHANGED result

\* tool get_active_workflows(), up to its POST
CallGetActiveWorkflows ==
    /\ pc = "idle"
    /\ call' = [NoCall EXCEPT !.op = "get_active_workflows"]
    /\ IF ~Truthy(PyStr(webhook_url))
       THEN Finish(ToolGetActiveWorkflows(ConfigError)) /\ UNCHANGED posts
       ELSE Post(WorkflowsRequest)
    /\ UNCHANGED <<webhook_url, received, exec_data>>

\* tool get_workflow_executions(limit, include_kpis), up to its POST
CallGetWorkflowExecutions ==
    /\ pc = "idle"
    /\ \E limit \in Limits, include_kpis \in BOOLEAN :
        /\ call' = [NoCall EXCEPT !.op = "get_workflow_executions",
                                  !.limit = limit, !.include_kpis = include_kpis]
        /\ IF ~Truthy(PyStr(webhook_url))
           THEN Finish(ToolGetWorkflowExecutions(ConfigError)) /\ UNCHANGED posts
           ELSE Post(ExecutionsRequest(limit))
    /\ UNCHANGED <<webhook_url, received, exec_data>>

\* tool get_workflow_health_report(limit), up to the POST of its call of
\* get_workflow_executions(limit, includes_kpis = True)
CallGetWorkflowHealthReport ==
    /\ pc = "idle"
    /\ \E limit \in Limits :
        /\ call' = [NoCall EXCEPT !.op = "get_workflow_health_report",
                                  !.limit = limit, !.include_kpis = TRUE]
        /\ IF ~Truthy(PyStr(webhook_url))
           THEN Finish(ToolGetWorkflowHealthReport(ConfigError)) /\ UNCHANGED posts
           ELSE Post(ExecutionsRequest(limit))
    /\ UNCHANGED <<webhook_url, received, exec_data>>

\* WorkflowIdMissing testing `workflow_id is None` only
WorkflowIdIsNone(workflow_id) == workflow_id.type = "NoneType"

\* `not workflow_id`
WorkflowIdMissing(workflow_id) == ~Truthy(workflow_id)

\* tool get_error_executions(workflow_id), up to its POST.  The method does
\* not look at webhook_url: with the URL unset requests.post("") is called
\* and raises MissingSchema, which the blanket handler turns into a result.
CallGetErrorExecutions ==
    /\ pc = "idle"
    /\ \E workflow_id \in WorkflowIds :
        /\ call' = [NoCall EXCEPT !.op = "get_error_executions",
                                  !.limit = ErrorLimit, !.workflow_id = workflow_id]
        /\ IF WorkflowIdMissing(workflow_id)
           THEN /\ Finish(ToolGetErrorExecutions(
                        ErrorResult(<<"workflow_id", "parameter", "is", "required">>)))
                /\ UNCHANGED posts
           ELSE IF webhook_url = <<>>
           THEN /\ posts' = Append(posts, DetailsRequest(ErrorLimit, workflow_id))
                /\ Finish(ToolGetErrorExecutions(ErrorResult(MissingSchema)))
           ELSE Post(DetailsRequest(ErrorLimit, workflow_id))
    /\ UNCHANGED <<webhook_url, received, exec_data>>

\* AfterExecutions asking again when the first round trip gave an error
AfterExecutionsRetry(data) ==
    LET failed == InOp("error", data)
    IN  IF Raised(failed) \/ failed.val
        THEN Post(ExecutionsRequest(call.limit)) /\ UNCHANGED exec_data
        ELSE exec_data' = data /\ Post(WorkflowsRequest)

\* the first round trip of the health report is over: return exec_data when
\* it has "error", else go on to get_active_workflows
AfterExecutions(data) ==
    LET failed == InOp("error", data)
    IN  IF Raised(failed)
        THEN Finish(ToolGetWorkflowHealthReport(ReportFailure(failed)))
             /\ UNCHANGED <<posts, exec_data>>
        ELSE IF failed.val
        THEN Finish(ToolGetWorkflowHealthReport(data)) /\ UNCHANGED <<posts, exec_data>>
        ELSE exec_data' = data /\ Post(WorkflowsRequest)

\* AfterWorkflows without its test for "error": the report is built anyway
AfterWorkflowsUnchecked(workflows_data, now) ==
    /\ Finish(ToolGetWorkflowHealthReport(
            HealthReportOf(exec_data, workflows_data, now)))
    /\ UNCHANGED <<posts, exec_data>>

\* the second round trip is over
AfterWorkflows(workflows_data, now) ==
    /\ IF InOp("error", workflows_data).val
       THEN Finish(ToolGetWorkflowHealthReport(workflows_data))
       ELSE Finish(ToolGetWorkflowHealthReport(
                HealthReportOf(exec_data, workflows_data, now)))
    /\ UNCHANGED <<posts, exec_data>>

\* the POST in flight ends with resp, and the call runs on to its next POST
\* or to its return
Receive(resp, now) ==
    /\ pc = "post"
    /\ received' = Append(received, resp)
    /\ CASE call.op = "get_active_workflows" ->
                /\ Finish(ToolGetActiveWorkflows(ActiveWorkflowsOf(resp)))
                /\ UNCHANGED <<posts, exec_data>>
         [] call.op = "get_workflow_executions" ->
                /\ Finish(ToolGetWorkflowExecutions(
                        ExecutionsOf(resp, call.include_kpis)))
                /\ UNCHANGED <<posts, exec_data>>
         [] call.op = "get_workflow_health_report" ->
                IF Len(posts) = 1
                THEN AfterExecutions(ExecutionsOf(resp, TRUE))
                ELSE AfterWorkflows(ActiveWorkflowsOf(resp), now)
         [] call.op = "get_error_executions" ->
                /\ Finish(ToolGetErrorExecutions(
                        ErrorExecutionsOf(resp, call.workflow_id)))
                /\ UNCHANGED <<posts, exec_data>>
    /\ UNCHANGED <<webhook_url, call>>

\* the payloads the webhook may send in answer to an action
PayloadsFor(action) ==
    CASE action = "get_active_workflows" -> WorkflowPayloads
      [] action = "get_workflow_executions" -> ExecutionPayloads
      [] action = "get_execution_details" -> ErrorPayloads

\* requests.post raises: the webhook cannot be reached or does not answer in time
WebhookUnreachable ==
    /\ pc = "post"
    /\ \E exc \in {ConnectionRefused, ReadTimedOut}, now \in Clock :
        Receive(TransportFailure(exc), now)

\* the webhook answers with a non-2xx status
WebhookErrorStatus ==
    /\ pc = "post"
    /\ \E now \in Clock : Receive(HttpError(ServerError), now)

\* the webhook answers 2xx with a JSON body
WebhookAnswers ==
    /\ pc = "post"
    /\ \E data \in PayloadsFor(ActionOf(posts[Len(posts)])), now \in Clock :
        Receive(JsonBody(data), now)

\* the caller has the result; the next call starts from scratch
Return ==
    /\ pc = "done"
    /\ pc' = "idle"
    /\ call' = NoCall
    /\ posts' = <<>>
    /\ received' = <<>>
    /\ exec_data' = PyNone
    /\ result' = PyNone
    /\ UNCHANGED webhook_url

Next ==
    \/ CallGetActiveWorkflows
    \/ CallGetWorkflowExecutions
    \/ CallGetWorkflowHealthReport
    \/ CallGetErrorExecutions
    \/ WebhookUnreachable
    \/ WebhookErrorStatus
    \/ WebhookAnswers
    \/ Return

Spec == Init /\ [][Next]_vars

\* ------------------------------------------------------------------------
\* Properties
\* ------------------------------------------------------------------------
Tools == {"get_active_workflows", "get_workflow_executions",
          "get_workflow_health_report", "get_error_executions"}

Returned == pc = "done"

\* r is an error result: a dict with the key "error"
IsErrorResult(r) == r.type = "dict" /\ Has(r, "error")

\* r is exactly {"error": <a string>}
OnlyError(r) ==
    r.type = "dict" /\ Keys(r) = <<"error">> /\ Item(r, "error").type = "str"

\* a POST of the call in progress failed in transport or by its status
SomeRequestFailed == \E i \in DOMAIN received : RequestFailed(received[i])

Unreachable == \E i \in DOMAIN received : received[i].kind = "transport"

PostedActions == [i \in DOMAIN posts |-> ActionOf(posts[i])]

\* C1: whatever the webhook does (transport failure, non-2xx status, any JSON
\* payload), each of the four tools returns a value, never an exception; and
\* a call that met a failed request, or found the URL unset, or was given no
\* workflow_id, returns a result with the key "error".
C1_ToolsReturnErrorResults ==
    Returned =>
        /\ call.op \in Tools
        /\ ~Raised(result)
        /\ SomeRequestFailed => IsErrorResult(result)
        /\ webhook_url = <<>> => IsErrorResult(result)
        /\ (call.op = "get_error_executions" /\ ~Truthy(call.workflow_id))
              => IsErrorResult(result)

\* C1 witness: get_workflow_executions got the payload null, the tool's own
\* `"error" in result` raised, and the tool returned an error result
C1_Witness ==
    /\ Returned
    /\ call.op = "get_workflow_executions"
    /\ Len(received) = 1
    /\ received[1] = JsonBody(PyNone)
    /\ OnlyError(result)

\* C2: when the POST raises a transport error, each of the four tools,
\* get_error_executions included, returns exactly {"error": msg} with msg
\* containing "Failed to fetch".
C2_UnreachableFailedToFetch ==
    (Returned /\ Unreachable) =>
        /\ OnlyError(result)
        /\ Contains(Item(result, "error").val, <<"Failed", "to", "fetch">>)

\* C3: with the webhook URL unset every tool returns the configuration error
\* "N8N_WEBHOOK_URL environment variable not set", whatever its arguments,
\* and calls requests.post not once.
C3_UnsetUrlConfigError ==
    (Returned /\ webhook_url = <<>>) =>
        /\ result = ConfigError
        /\ posts = <<>>

\* C4: during a call of get_error_executions with an empty or missing
\* workflow_id no POST is made at any point, and the call returns an error
\* result.
C4_NoWorkflowIdNoPost ==
    (call.op = "get_error_executions" /\ ~Truthy(call.workflow_id)) =>
        /\ posts = <<>>
        /\ pc # "post"
        /\ Returned => IsErrorResult(result)

\* C4 witness: such a call has returned, with the URL set and with
\* workflow_id = ""
C4_Witness ==
    /\ Returned
    /\ call.op = "get_error_executions"
    /\ call.workflow_id = PyStr(<<>>)
    /\ webhook_url # <<>>
    /\ OnlyError(result)

\* C5: no retries.  Within one call get_active_workflows,
\* get_workflow_executions and get_error_executions make at most one POST,
\* get_workflow_health_report at most two and at most one per action; after a
\* failed POST no POST with the same action follows.
C5_NoRetries ==
    /\ call.op \in Tools \ {"get_workflow_health_report"} => Len(posts) <= 1
    /\ call.op = "get_workflow_health_report" =>
            /\ Len(posts) <= 2
            /\ \A i, j \in DOMAIN posts :
                    i # j => PostedActions[i] # PostedActions[j]
    /\ \A i \in DOMAIN received : \A j \in DOMAIN posts :
            (RequestFailed(received[i]) /\ j > i)
                => PostedActions[j] # PostedActions[i]
    /\ SomeRequestFailed => Len(posts) = Len(received)

\* C5 witness: a health report whose second POST failed has returned after
\* two POSTs; the failed one was not repeated
C5_Witness ==
    /\ Returned
    /\ call.op = "get_workflow_health_report"
    /\ Len(posts) = 2 /\ Len(received) = 2
    /\ RequestFailed(received[2])

\* what the health report's two upstream calls returned, as far as they
\* have been made
FirstUpstream ==
    IF webhook_url = <<>> THEN ConfigError ELSE ExecutionsOf(received[1], TRUE)
SecondUpstream == ActiveWorkflowsOf(received[2])
FirstEnded == webhook_url = <<>> \/ Len(received) >= 1
SecondEnded == Len(received) >= 2

ReportFields == {"generated_at", "overall_health", "summary", "execution_modes",
                 "timing_metrics", "problematic_workflows", "healthy_workflows",
                 "alerts"}

\* C6: get_workflow_health_report posts get_workflow_executions first and
\* get_active_workflows second, the second only after the first was answered;
\* when the first gives an error result the second is never posted; when
\* either gives an error result the report is exactly that result and has
\* none of the report's fields.
C6_ReportShortCircuits ==
    call.op = "get_workflow_health_report" =>
        /\ Len(posts) >= 1 => PostedActions[1] = "get_workflow_executions"
        /\ Len(posts) >= 2 =>
                /\ PostedActions[2] = "get_active_workflows"
                /\ Len(received) >= 1
        /\ (FirstEnded /\ IsErrorResult(FirstUpstream)) =>
                /\ Len(posts) <= 1
                /\ Returned
                /\ result = FirstUpstream
                /\ \A k \in ReportFields : ~Has(result, k)
        /\ (SecondEnded /\ IsErrorResult(SecondUpstream)) =>
                /\ Returned
                /\ result = SecondUpstream
                /\ \A k \in ReportFields : ~Has(result, k)

\* C6 witness: the first round trip gave execution data, the second an error
\* result (a payload of the wrong shape), and the report is that error
C6_Witness ==
    /\ Returned
    /\ call.op = "get_workflow_health_report"
    /\ Len(received) = 2
    /\ received[1].kind = "json" /\ Has(FirstUpstream, "insights")
    /\ received[2] = JsonBody(PyList(<<Text("stray")>>))
    /\ result = ErrorResult(<<"Webhook", "returned", "invalid", "data", "format">>)

\* the execution record of a get_workflow_executions call with KPIs, when
\* the webhook sent one with a summary and the call succeeded
KpiRecord == Unwrap(received[1].data)

KpiAnnotated ==
    /\ Returned
    /\ call.op = "get_workflow_executions"
    /\ call.include_kpis
    /\ Len(received) = 1
    /\ received[1].kind = "json"
    /\ KpiRecord.type = "dict"
    /\ Has(KpiRecord, "summary")
    /\ ~IsErrorResult(result)

\* the failure rate as the code parses it, and the bucket it reported
KpiRate == ParseRate(Get(Item(KpiRecord, "summary"), "failureRate", PyStr(<<"0">>)))
KpiStatus == Item(Item(result, "insights"), "health_status")
KpiRateIs(chars) ==
    Has(Item(KpiRecord, "summary"), "failureRate")
    /\ Item(Item(KpiRecord, "summary"), "failureRate") = Rate(chars)

Ten == PyFloat(10, 1)
TwentyFive == PyFloat(25, 1)

ReportSucceeded ==
    /\ Returned
    /\ call.op = "get_workflow_health_report"
    /\ Len(received) = 2
    /\ ~IsErrorResult(result)

\* the allWorkflowMetrics mapping of the execution data, as <<id, metrics>>
\* pairs (empty when the data has none)
ReportMetrics == AllWorkflowMetrics(exec_data).val
Problematic == Item(result, "problematic_workflows").val
Healthy == Item(result, "healthy_workflows").val

\* how often the id occurs in a list of workflow entries
Occurrences(list, id) ==
    Cardinality({j \in DOMAIN list : Item(list[j], "id") = PyStr(<<id>>)})

\* C8: in a successful health report every id of allWorkflowMetrics occurs
\* exactly once in problematic_workflows and healthy_workflows together, in
\* problematic_workflows iff its parsed failure rate is > 10 (10% is healthy,
\* 10.1% problematic), and the two lists hold no other id.
C8_ReportPartition ==
    ReportSucceeded =>
        /\ \A i \in DOMAIN ReportMetrics :
            LET id == ReportMetrics[i][1]
                rate == MetricsRate(ReportMetrics[i][2])
            IN  /\ Occurrences(Problematic, id) + Occurrences(Healthy, id) = 1
                /\ Occurrences(Problematic, id) = 1 <=> FloatGt(rate, 10)
                /\ rate = Ten => Occurrences(Healthy, id) = 1
        /\ \A j \in DOMAIN Problematic :
            \E i \in DOMAIN ReportMetrics :
                Item(Problematic[j], "id") = PyStr(<<ReportMetrics[i][1]>>)
        /\ \A j \in DOMAIN Healthy :
            \E i \in DOMAIN ReportMetrics :
                Item(Healthy[j], "id") = PyStr(<<ReportMetrics[i][1]>>)

\* C8 witness: of two workflows, the one at "10%" is reported healthy and the
\* one at "10.1%" problematic
C8_Witness ==
    /\ ReportSucceeded
    /\ Len(ReportMetrics) = 2
    /\ \E i, j \in DOMAIN ReportMetrics :
        /\ Get(ReportMetrics[i][2], "failureRate", PyNone) = Rate(<<"1", "0">>)
        /\ Get(ReportMetrics[j][2], "failureRate", PyNone)
              = Rate(<<"1", "0", ".", "1">>)
        /\ Occurrences(Healthy, ReportMetrics[i][1]) = 1
        /\ Occurrences(Problematic, ReportMetrics[j][1]) = 1

\* C9: in every successful health report problematic_workflows is in
\* non-increasing order of parsed failure rate: of two adjacent entries the
\* earlier one's rate is >= the later one's.
C9_ProblematicDescending ==
    ReportSucceeded =>
        \A j \in 1..(Len(Problematic) - 1) :
            FloatGe(MetricsRate(Item(Problematic[j], "metrics")),
                    MetricsRate(Item(Problematic[j + 1], "metrics")))

\* C9 witness: allWorkflowMetrics listed a workflow at "10.1%" before one at
\* "25%", and the report lists them the other way round
C9_Witness ==
    /\ ReportSucceeded
    /\ Len(ReportMetrics) = 2
    /\ Get(ReportMetrics[1][2], "failureRate", PyNone) = Rate(<<"1", "0", ".", "1">>)
    /\ Get(ReportMetrics[2][2], "failureRate", PyNone) = Rate(<<"2", "5">>)
    /\ Len(Problematic) = 2
    /\ Item(Problematic[1], "id") = PyStr(<<ReportMetrics[2][1]>>)
    /\ Item(Problematic[2], "id") = PyStr(<<ReportMetrics[1][1]>>)

\* a get_active_workflows call that succeeded
WorkflowsListed ==
    /\ Returned
    /\ call.op = "get_active_workflows"
    /\ Len(received) = 1
    /\ received[1].kind = "json"
    /\ ~IsErrorResult(result)

\* the workflow records of the payload the call answered: the dict elements
\* of a list, or the elements of the list under "data"
RawWorkflows ==
    LET data == received[1].data
    IN  IF data.type = "list" THEN SelectSeq(data.val, IsDict)
        ELSE IF Item(data, "data").type = "list" THEN Item(data, "data").val
        ELSE <<>>

\* the raw field, or the default when the record has none
RawOr(wf, k, dflt) == IF Has(wf, k) THEN Item(wf, k) ELSE dflt

\* C10: for a well-formed workflow list the result has total_active =
\* len(workflows) = summary.total = len(summary.names); each entry has exactly
\* the fields id, name, created, updated, archived; id defaults to "unknown",
\* name to "Unnamed", created and updated to ""; archived is true iff the raw
\* isArchived is exactly the string "true".
C10_WorkflowSummaries ==
    WorkflowsListed =>
        LET entries == Item(result, "workflows").val
            summary == Item(result, "summary")
            n == Len(RawWorkflows)
        IN  /\ Item(result, "total_active") = PyInt(n)
            /\ Len(entries) = n
            /\ Item(summary, "total") = PyInt(n)
            /\ Len(Item(summary, "names").val) = n
            /\ \A i \in 1..n :
                LET wf == RawWorkflows[i]
                    e == entries[i]
                IN  /\ Keys(e) = <<"id", "name", "created", "updated", "archived">>
                    /\ Item(e, "id") = RawOr(wf, "id", PyStr(<<"unknown">>))
                    /\ Item(e, "name") = RawOr(wf, "name", PyStr(<<"Unnamed">>))
                    /\ Item(e, "created") = RawOr(wf, "createdAt", PyStr(<<>>))
                    /\ Item(e, "updated") = RawOr(wf, "updatedAt", PyStr(<<>>))
                    /\ Item(e, "archived").type = "bool"
                    /\ Item(e, "archived").val
                          <=> (Has(wf, "isArchived")
                               /\ Item(wf, "isArchived") = PyStr(<<"true">>))
                    /\ Item(summary, "names").val[i] = Item(e, "name")

\* C10 witness: a list of two records, one with isArchived the boolean true
\* (reported archived = false), one with no field at all (all defaults)
C10_Witness ==
    /\ WorkflowsListed
    /\ Len(RawWorkflows) = 2
    /\ Has(RawWorkflows[1], "isArchived")
    /\ Item(RawWorkflows[1], "isArchived") = PyBool(TRUE)
    /\ Item(Item(result, "workflows").val[1], "archived") = PyBool(FALSE)
    /\ RawWorkflows[2] = PyDict(<<>>)
    /\ Item(Item(result, "workflows").val[2], "id") = PyStr(<<"unknown">>)
    /\ Item(result, "total_active") = PyInt(2)

\* a get_active_workflows call whose webhook answered with a JSON list
WorkflowsAnsweredList ==
    /\ Returned
    /\ call.op = "get_active_workflows"
    /\ Len(received) = 1
    /\ received[1].kind = "json"
    /\ received[1].data.type = "list"

InvalidFormat == ErrorResult(<<"Webhook", "returned", "invalid", "data", "format">>)

\* the success result for no workflow at all
NoWorkflows ==
    PyDict(<< <<"total_active", PyInt(0)>>,
              <<"workflows", PyList(<<>>)>>,
              <<"summary", PyDict(<< <<"total", PyInt(0)>>,
                                     <<"names", PyList(<<>>)>> >>)>> >>)

\* C11 as stated: a list payload from which no dict element survives the
\* filter, the empty list included, makes get_active_workflows return the
\* invalid-format error.
C11_NoSurvivorInvalidFormat ==
    (WorkflowsAnsweredList /\ SelectSeq(received[1].data.val, IsDict) = <<>>)
        => result = InvalidFormat

\* C11 amended: a non-empty list without any dict element gives the
\* invalid-format error, while the empty list gives the success result with
\* total_active 0 and no workflows.
C11_NonEmptyNoSurvivor ==
    (WorkflowsAnsweredList /\ SelectSeq(received[1].data.val, IsDict) = <<>>)
        => IF Len(received[1].data.val) > 0
           THEN result = InvalidFormat
           ELSE result = NoWorkflows

\* C11 witness: the webhook answered [] and the call succeeded with zero
\* workflows
C11_Witness ==
    /\ WorkflowsAnsweredList
    /\ received[1].data = PyList(<<>>)
    /\ result = NoWorkflows

\* a get_error_executions call that the webhook answered and that succeeded
ErrorsListed ==
    /\ Returned
    /\ call.op = "get_error_executions"
    /\ Len(received) = 1
    /\ received[1].kind = "json"
    /\ ~IsErrorResult(result)

Errors == Item(result, "errors").val
EntryMessage(e) == Item(Item(e, "error"), "message")
EntryNode(e) == Item(Item(e, "failed_node"), "name")
Patterns == Item(Item(result, "summary"), "error_patterns").val
FailedNodes == Item(Item(result, "summary"), "failed_nodes").val

\* the positions of `errors` that satisfy Test, in increasing order
Positions(Test(_)) == Ascending({i \in DOMAIN Errors : Test(Errors[i])})

RECURSIVE SumCounts(_)
SumCounts(patterns) ==
    IF patterns = <<>> THEN 0
    ELSE Item(patterns[1][2], "count").val + SumCounts(Tail(patterns))

UpstreamExecutions ==
    LET data == received[1].data
        executions == IF data.type = "list" THEN data
                      ELSE IF data.type = "dict" THEN Get(data, "data", PyList(<<>>))
                      ELSE PyList(<<>>)
    IN  IF executions.type = "list" THEN SelectSeq(executions.val, IsDict)
        ELSE <<>>

\* v[path[1]][path[2]]..., or None where a key is missing or the value
\* reached is no dict
RECURSIVE Dig(_, _)
Dig(v, path) ==
    IF path = <<>> THEN v
    ELSE IF v.type = "dict" /\ Has(v, Head(path)) THEN Dig(Item(v, Head(path)), Tail(path))
    ELSE PyNone

\* the record has an error.node object
HasErrorNode(exec) ==
    Dig(exec, <<"data", "resultData", "error", "node">>).type = "dict"

\* the record's own data.resultData.lastNodeExecuted, None when absent
OwnLastNode(exec) == Dig(exec, <<"data", "resultData", "lastNodeExecuted">>)

\* C13: in a successful result, the entry of an execution without an
\* error.node object has failed_node = {name: X}, X being that execution's
\* own lastNodeExecuted when it is present and non-empty, and "Unknown"
\* otherwise.
C13_FallbackNodeName ==
    ErrorsListed =>
        \A i \in DOMAIN Errors :
            ~HasErrorNode(UpstreamExecutions[i]) =>
                Item(Errors[i], "failed_node") =
                    PyDict(<< <<"name",
                        IF Truthy(OwnLastNode(UpstreamExecutions[i]))
                        THEN OwnLastNode(UpstreamExecutions[i])
                        ELSE PyStr(<<"Unknown">>)>> >>)

\* the entry get_error_executions produces for exec when the webhook sends
\* it alone
Alone(exec) ==
    LET r == ErrorExecutionsOf(JsonBody(PyList(<<exec>>)), call.workflow_id)
    IN  IF IsErrorResult(r) THEN r ELSE Item(r, "errors").val[1]

\* C17: in a successful result the entry at each position is the entry the
\* same execution gets when it is processed alone.
C17_EntriesIndependent ==
    ErrorsListed =>
        \A i \in DOMAIN Errors : Errors[i] = Alone(UpstreamExecutions[i])

\* a get_error_executions call that the webhook answered with a list of
\* executions, bare or under "data"
ExecutionsAnswered ==
    /\ Returned
    /\ call.op = "get_error_executions"
    /\ Len(received) = 1
    /\ received[1].kind = "json"
    /\ \/ received[1].data.type = "list"
       \/ /\ received[1].data.type = "dict"
          /\ Get(received[1].data, "data", PyNone).type = "list"

\* the record has the trigger shape
\* data.resultData.runData.Webhook[0].data.main[0][0].json
HasTriggerShape(exec) ==
    LET webhook == Dig(exec, <<"data", "resultData", "runData", "Webhook">>)
        main == Dig(webhook.val[1], <<"data", "main">>)
    IN  /\ webhook.type = "list" /\ Len(webhook.val) > 0
        /\ main.type = "list" /\ Len(main.val) > 0
        /\ main.val[1].type = "list" /\ Len(main.val[1].val) > 0
        /\ Dig(main.val[1].val[1], <<"json">>).type = "dict"

\* nothing but the trigger data of the record can make its pass fail:
\* resultData and resultData.error are objects where they are present, and
\* the message and the node name are strings or null
SoundButTrigger(exec) ==
    LET data == Get(exec, "data", PyNone)
        result_data == Get(data, "resultData", PyDict(<<>>))
        err == Get(result_data, "error", PyDict(<<>>))
    IN  data.type = "dict" =>
            /\ result_data.type = "dict"
            /\ err.type = "dict"
            /\ Get(err, "message", PyNone).type \in {"str", "NoneType"}
            /\ Dig(err, <<"node", "name">>).type \in {"str", "NoneType"}
            /\ Get(result_data, "lastNodeExecuted", PyNone).type
                  \in {"str", "NoneType"}

\* C14: when every execution is sound but for its trigger data, the call
\* succeeds, and each execution whose trigger data has not the shape
\* data.resultData.runData.Webhook[0].data.main[0][0].json gets the empty
\* trigger object.
C14_OtherShapesEmptyTrigger ==
    (/\ ExecutionsAnswered
     /\ \A i \in DOMAIN UpstreamExecutions : SoundButTrigger(UpstreamExecutions[i]))
        => /\ ~IsErrorResult(result)
           /\ \A i \in DOMAIN UpstreamExecutions :
                ~HasTriggerShape(UpstreamExecutions[i])
                    => Item(Errors[i], "trigger") = PyDict(<<>>)

\* the stamp is a string datetime.fromisoformat accepts once its Z is replaced
Parses(stamp) == stamp.type = "str" /\ ~Raised(FromIsoFormat(ReplaceZ(stamp.val)))

Parsed(stamp) == FromIsoFormat(ReplaceZ(stamp.val)).val

\* parsing or subtracting the record's startedAt/stoppedAt fails: one is
\* missing or empty, is no string, is malformed, or one has an offset and the
\* other has none
StampsFail(exec) ==
    LET started == Get(exec, "startedAt", PyNone)
        stopped == Get(exec, "stoppedAt", PyNone)
    IN  ~(/\ Parses(started) /\ Parses(stopped)
          /\ Parsed(started).aware = Parsed(stopped).aware)

\* the record without its timestamps
Unstamped(exec) ==
    PyDict(SelectSeq(exec.val, LAMBDA kv : kv[1] \notin {"startedAt", "stoppedAt"}))

\* what the call returns for the same executions without their timestamps
UnstampedResult ==
    ErrorExecutionsOf(
        JsonBody(PyList([i \in DOMAIN UpstreamExecutions |->
                            Unstamped(UpstreamExecutions[i])])),
        call.workflow_id)

StampFields == {"started_at", "stopped_at", "duration_seconds"}

\* C15: the timestamps of the executions decide nothing but the entries'
\* started_at, stopped_at and duration_seconds (and time_range, which copies
\* started_at): the call succeeds exactly when it succeeds for the same
\* executions without timestamps, every other field of every entry is the
\* same, and duration_seconds is null for exactly the executions whose
\* timestamps fail to parse or to subtract, the difference in seconds for
\* the others.
C15_DurationNullOnFailure ==
    ExecutionsAnswered =>
        /\ IsErrorResult(result) <=> IsErrorResult(UnstampedResult)
        /\ ~IsErrorResult(result) =>
            /\ Len(Errors) = Len(UpstreamExecutions)
            /\ \A i \in DOMAIN Errors :
                LET exec == UpstreamExecutions[i]
                    plain == Item(UnstampedResult, "errors").val[i]
                IN  /\ Keys(Errors[i]) = Keys(plain)
                    /\ \A k \in DOMAIN Errors[i].val :
                        Errors[i].val[k][1] \notin StampFields
                            => Errors[i].val[k] = plain.val[k]
                    /\ Item(Errors[i], "started_at") = Get(exec, "startedAt", PyNone)
                    /\ Item(Errors[i], "stopped_at") = Get(exec, "stoppedAt", PyNone)
                    /\ Item(Errors[i], "duration_seconds") =
                        IF StampsFail(exec) THEN PyNone
                        ELSE PyFloat(Parsed(Get(exec, "stoppedAt", PyNone)).seconds
                                     - Parsed(Get(exec, "startedAt", PyNone)).seconds, 1)

\* C15 witness: the first execution has a start without offset and a stop
\* with one (null duration), the second has two stamps without offset five
\* seconds apart
C15_Witness ==
    /\ ExecutionsAnswered
    /\ ~IsErrorResult(result)
    /\ Len(Errors) = 2
    /\ Parses(Item(Errors[1], "started_at"))
    /\ Parses(Item(Errors[1], "stopped_at"))
    /\ StampsFail(UpstreamExecutions[1])
    /\ Item(Errors[1], "duration_seconds") = PyNone
    /\ Item(Errors[2], "duration_seconds") = PyFloat(5, 1)

\* a get_workflow_executions call that the webhook answered and that did not
\* end in an error result
ExecutionsSucceeded ==
    /\ Returned
    /\ call.op = "get_workflow_executions"
    /\ Len(received) = 1
    /\ received[1].kind = "json"
    /\ ~IsErrorResult(result)

\* d without the key k
WithoutKey(d, k) == PyDict(SelectSeq(d.val, LAMBDA kv : kv[1] # k))

\* the result is the record but for "insights", which is added only when
\* KPIs were requested and the record has a summary
FramedBy(record) ==
    IF call.include_kpis /\ record.type = "dict" /\ Has(record, "summary")
    THEN /\ result.type = "dict"
         /\ Has(result, "insights")
         /\ WithoutKey(result, "insights") = WithoutKey(record, "insights")
    ELSE result = record

\* the payload, a list of one element counting as that element
SingleRecord ==
    LET data == received[1].data
    IN  IF data.type = "list" /\ Len(data.val) = 1 THEN data.val[1] ELSE data

\* the payload, a list of one or more elements counting as its first element
FirstRecord ==
    LET data == received[1].data
    IN  IF data.type = "list" /\ Len(data.val) >= 1 THEN data.val[1] ELSE data

\* C16 as stated: a successful get_workflow_executions result equals the
\* upstream record, a one-element list being unwrapped to its element, on
\* every key but insights; insights is added only when KPIs were requested
\* and the record has a summary; without KPIs the result is the record.
C16_UpstreamRecordKept ==
    ExecutionsSucceeded => FramedBy(SingleRecord)

\* C16 amended: the same with every non-empty list unwrapped to its first
\* element, the elements after it being dropped.
C16_FirstRecordKept ==
    ExecutionsSucceeded => FramedBy(FirstRecord)

\* C16 witness: KPIs requested, the webhook answered a list of two records,
\* and the result is the first one with insights added
C16_Witness ==
    /\ ExecutionsSucceeded
    /\ call.include_kpis
    /\ received[1].data.type = "list"
    /\ Len(received[1].data.val) = 2
    /\ Keys(result) = <<"summary", "timing", "insights">>
    /\ WithoutKey(result, "insights") = received[1].data.val[1]

\* C18: whatever JSON payload the webhook sends, the value each of the four
\* tools returns is a key/value mapping.
C18_ResultsAreMappings ==
    Returned => result.type = "dict"

====
